---- MODULE Spec2Model ----
(***************************************************************************)
(* A model of app.py, the Bitwave -> Form 8949 converter.                  *)
(*                                                                         *)
(*   SpecClean  clean_bitwave_currency_value applied to one raw cell       *)
(*   Spec       process_bitwave_transactions, one DataFrame row per step,  *)
(*              followed by separate_bitwave_transactions_by_term          *)
(*   SpecPages  main from the records returned: the split, then           *)
(*              generate_all_forms / generate_form_8949_pages, one page    *)
(*              group per step, then the download decision                 *)
(*   SpecDraw   the text the renderers draw for one gain/loss amount       *)
(*                                                                         *)
(* Text is a sequence of one-character strings.  A Python float is a       *)
(* decimal [m, e] standing for m / 10^e, kept normalised (no trailing      *)
(* zero in the fraction), so two floats are equal iff their records are;   *)
(* binary rounding of IEEE doubles is not modelled.  A pandas Timestamp is *)
(* a whole number of seconds since the Unix epoch.                         *)
(***************************************************************************)
EXTENDS Integers, Sequences, FiniteSets, TLC

VARIABLES
    pc,                   \* position of the run
    value, result,        \* clean_bitwave_currency_value: argument, return value
    tax_year,             \* the selected tax year
    row, n_rows,          \* the DataFrame row in hand, rows read so far
    sell_count,           \* len(sell_actions), of the rows read so far
    transactions, validation_warnings,
    processed_count, error_count, filtered_out_count,
    short_term, long_term,
    part_type, page_num,  \* generate_all_forms: partition and page in hand
    pdf_files,            \* the documents generated so far
    fetch_count,          \* calls of requests.get made by this request
    taxpayer_entered,     \* name and SSN are both filled in
    download,             \* what main offers for download
    place,                \* renderer and place where an amount is drawn
    gain_loss,            \* the gain/loss amount to draw
    gain_loss_text        \* the text drawn for it

vars == <<pc, value, result, tax_year, row, n_rows, sell_count, transactions,
          validation_warnings, processed_count, error_count, filtered_out_count,
          short_term, long_term, part_type, page_num, pdf_files, fetch_count,
          taxpayer_entered, download, place, gain_loss, gain_loss_text>>

cleanVars == <<value, result>>
rowVars   == <<tax_year, row, n_rows, sell_count, transactions, validation_warnings,
               processed_count, error_count, filtered_out_count>>
termVars  == <<short_term, long_term>>
pageVars  == <<part_type, page_num, pdf_files, fetch_count, taxpayer_entered, download>>
drawVars  == <<place, gain_loss, gain_loss_text>>

-----------------------------------------------------------------------------
(* Bounds of the model *)

MaxLen     == 4     \* longest enumerated raw cell text, in characters
MaxRows    == 2     \* DataFrame rows read by one run
MaxShort   == 29    \* most records of a short-term partition handed to generate_all_forms
MaxLong    == 15    \* most records of a long-term partition handed to generate_all_forms
MaxZeros   == 17    \* most zeros after the digits of a whole amount drawn

-----------------------------------------------------------------------------
(* Decimal numbers: Python floats holding decimal amounts *)

Abs(n) == IF n < 0 THEN -n ELSE n
Max(a, b) == IF a >= b THEN a ELSE b

RECURSIVE Pow10(_)
Pow10(k) == IF k = 0 THEN 1 ELSE 10 * Pow10(k - 1)

RECURSIVE Dec(_, _)
Dec(m, e) == IF e > 0 /\ m % 10 = 0 THEN Dec(m \div 10, e - 1) ELSE [m |-> m, e |-> e]

Zero == Dec(0, 0)

DecNeg(a) == [m |-> -a.m, e |-> a.e]
DecAbs(a) == [m |-> Abs(a.m), e |-> a.e]
DecAdd(a, b) ==
    LET E == Max(a.e, b.e)
    IN  Dec(a.m * Pow10(E - a.e) + b.m * Pow10(E - b.e), E)
DecSub(a, b) == DecAdd(a, DecNeg(b))
DecLess(a, b) == DecSub(a, b).m < 0

-----------------------------------------------------------------------------
(* Text *)

Digits == <<"0", "1", "2", "3", "4", "5", "6", "7", "8", "9">>
IsDigit(c) == \E i \in 1..10 : Digits[i] = c
DigitVal(c) == (CHOOSE i \in 1..10 : Digits[i] = c) - 1

Whitespace == {" "}

Contains(s, c) == \E i \in 1..Len(s) : s[i] = c
Remove(s, chars) == SelectSeq(s, LAMBDA c : c \notin chars)

RECURSIVE LStrip(_)
LStrip(s) == IF s # <<>> /\ Head(s) \in Whitespace THEN LStrip(Tail(s)) ELSE s
RECURSIVE RStrip(_)
RStrip(s) ==
    IF s # <<>> /\ s[Len(s)] \in Whitespace THEN RStrip(SubSeq(s, 1, Len(s) - 1)) ELSE s
\* str.strip()
Strip(s) == RStrip(LStrip(s))

RECURSIVE DigitsValue(_)
DigitsValue(s) ==
    IF s = <<>> THEN 0 ELSE 10 * DigitsValue(SubSeq(s, 1, Len(s) - 1)) + DigitVal(s[Len(s)])

\* float(text): an optional sign, then digits with at most one point and at
\* least one digit.  ok = FALSE stands for the ValueError float() raises.
\* Exponents, "inf", "nan" and digit-group underscores are outside the
\* alphabets the model draws from.
PyFloat(s) ==
    LET signed == s # <<>> /\ Head(s) \in {"-", "+"}
        body   == IF signed THEN Tail(s) ELSE s
        points == Len(SelectSeq(body, LAMBDA c : c = "."))
        digs   == SelectSeq(body, IsDigit)
        wellformed == /\ Len(digs) >= 1
                      /\ points <= 1
                      /\ Len(digs) + points = Len(body)
        pointAt == CHOOSE i \in 1..Len(body) : body[i] = "."
        fracLen == IF points = 1 THEN Len(body) - pointAt ELSE 0
        mag     == DigitsValue(digs)
    IN  IF wellformed
        THEN [ok |-> TRUE,
              v  |-> Dec(IF signed /\ Head(s) = "-" THEN -mag ELSE mag, fracLen)]
        ELSE [ok |-> FALSE, v |-> Zero]

-----------------------------------------------------------------------------
(* Raw cells of the DataFrame: NaN (an empty CSV cell), a number, or text *)

NaN      == [kind |-> "nan", n |-> 0, s |-> <<>>]
Num(n)   == [kind |-> "num", n |-> n, s |-> <<>>]
Str(s)   == [kind |-> "str", n |-> 0, s |-> s]

\* pd.isna(value)
IsNa(v) == v.kind = "nan"

-----------------------------------------------------------------------------
(* clean_bitwave_currency_value *)

\* the text with both kinds of parenthesis taken out, when it holds both
Unparenthesized(str_val) ==
    IF Contains(str_val, "(") /\ Contains(str_val, ")")
    THEN Remove(str_val, {"(", ")"})
    ELSE str_val

\* re.sub(r'[,$\s]', '', str_val)
StripCurrency(str_val) == Remove(str_val, {",", "$"} \cup Whitespace)

IsNegative(str_val) == Contains(str_val, "(") /\ Contains(str_val, ")")

\* the sign given to the parsed number
Signed(is_negative, parsed) == IF is_negative THEN DecNeg(parsed) ELSE parsed

clean_bitwave_currency_value(v) ==
    IF IsNa(v) \/ v = Str(<<>>) \/ v = Str(<<"-">>) \/ v = Str(<<" ", "-", " ", " ", " ">>)
    THEN Zero
    ELSE LET str_val == Strip(v.s)
             is_negative == IsNegative(str_val)
             cleaned == StripCurrency(Unparenthesized(str_val))
             parsed  == PyFloat(cleaned)
         IN  IF str_val \in {<<"-">>, <<>>, <<"n", "u", "l", "l">>, <<"N", "o", "n", "e">>}
             THEN Zero
             ELSE IF parsed.ok THEN Signed(is_negative, parsed.v) ELSE Zero

-----------------------------------------------------------------------------
(* Dates: a pandas Timestamp as whole seconds since 1970-01-01 00:00:00 *)

SecondsPerDay == 86400
EpochYear == 1970

IsLeap(y) == y % 4 = 0 /\ (y % 100 # 0 \/ y % 400 = 0)
DaysInYear(y) == IF IsLeap(y) THEN 366 ELSE 365

\* leap years before year y, counted from year 1
LeapsBefore(y) == ((y - 1) \div 4) - ((y - 1) \div 100) + ((y - 1) \div 400)
\* days from 1970-01-01 to January 1 of year y
DaysBeforeYear(y) == 365 * (y - EpochYear) + LeapsBefore(y) - LeapsBefore(EpochYear)

\* pd.Timestamp(f'{tax_year}-01-01')
tax_year_start(y) == DaysBeforeYear(y) * SecondsPerDay

\* pd.Timestamp(f'{tax_year}-12-31 23:59:59')
tax_year_end(y) ==
    (DaysBeforeYear(y) + DaysInYear(y) - 1) * SecondsPerDay + (SecondsPerDay - 1)

InTaxYearOpenEnd(date_sold, y) ==
    tax_year_start(y) <= date_sold /\ date_sold < tax_year_end(y)

\* tax_year_start <= date_sold <= tax_year_end
InTaxYear(date_sold, y) == tax_year_start(y) <= date_sold /\ date_sold <= tax_year_end(y)

\* rounds toward zero
HoldingDaysTruncated(date_sold, date_acquired) ==
    IF date_sold >= date_acquired
    THEN (date_sold - date_acquired) \div SecondsPerDay
    ELSE -((date_acquired - date_sold) \div SecondsPerDay)

\* (date_sold - date_acquired).days: Timedelta.days is the floor of the
\* difference in days, so a negative difference gives a negative count
HoldingDays(date_sold, date_acquired) == (date_sold - date_acquired) \div SecondsPerDay

\* The checks and conversion both timestamp cells go through:
\*   pd.isna(x) or x == 0 or x == ''  -> ValueError
\*   pd.to_datetime(float(x), unit='s', errors='coerce')
\* A text cell never equals the number 0, so the text "0" passes the first
\* test and float("0") converts to the epoch.  ok = FALSE stands for the
\* exception caught by the inner handler.  The sampled cells are whole
\* seconds in the range of Timestamp, so errors='coerce' never yields NaT.
IsEmptyTimestamp(x) == IsNa(x) \/ x = Num(0) \/ x = Str(<<>>)

ParseTimestamp(x) ==
    IF IsEmptyTimestamp(x) THEN [ok |-> FALSE, t |-> 0]
    ELSE IF x.kind = "num" THEN [ok |-> TRUE, t |-> x.n]
    ELSE LET f == PyFloat(Strip(x.s))
         IN  IF f.ok /\ f.v.e = 0 THEN [ok |-> TRUE, t |-> f.v.m] ELSE [ok |-> FALSE, t |-> 0]

-----------------------------------------------------------------------------
(* process_bitwave_transactions: the body of the loop, for one row *)

Warning(kind, r) == [kind |-> kind, txn |-> r.txnId]

HoldingPeriodLimit == 365

\* classifies by the holding period alone
ClassifyByHolding(short_term_gl, long_term_gl, holding_days) ==
    [is_short_term |-> holding_days <= HoldingPeriodLimit,
     bitwave_gain_loss |-> DecAdd(short_term_gl, long_term_gl)]

\* the classification and the adopted gain/loss
Classify(short_term_gl, long_term_gl, holding_days) ==
    IF short_term_gl # Zero /\ long_term_gl = Zero
    THEN [is_short_term |-> TRUE, bitwave_gain_loss |-> short_term_gl]
    ELSE IF long_term_gl # Zero /\ short_term_gl = Zero
    THEN [is_short_term |-> FALSE, bitwave_gain_loss |-> long_term_gl]
    ELSE [is_short_term |-> holding_days <= HoldingPeriodLimit,
          bitwave_gain_loss |-> DecAdd(short_term_gl, long_term_gl)]

EitherTermReported(short_term_gl, long_term_gl) ==
    short_term_gl # Zero \/ long_term_gl # Zero

\* "Both short and long-term gains reported"
BothTermsReported(short_term_gl, long_term_gl) ==
    short_term_gl # Zero /\ long_term_gl # Zero

\* abs(calculated_gain_loss - bitwave_gain_loss) > 0.02.  At a difference of
\* exactly two cents the rounding of the doubles decides the comparison
\* (abs(60.0 - 60.02) > 0.02 is True); the rows of the model differ by one
\* cent, three cents or more, where decimals and doubles agree.
Tolerance == Dec(2, 2)
\* without abs()
CrossCheckFailsOneSided(proceeds, cost_basis, bitwave_gain_loss) ==
    DecLess(Tolerance, DecSub(DecSub(proceeds, cost_basis), bitwave_gain_loss))
CrossCheckFails(proceeds, cost_basis, bitwave_gain_loss) ==
    DecLess(Tolerance, DecAbs(DecSub(DecSub(proceeds, cost_basis), bitwave_gain_loss)))

\* a description that is built from any cell
DescriptionNeverRaises(r) == FALSE

\* abs(row['assetUnitAdj']) in the description raises TypeError for a text cell
DescriptionRaises(r) == r.assetUnitAdj.kind = "str"

\* the record built from a row ('description' and 'lot_id' are left out: no
\* later step reads more of them than their presence)
Transaction(r, date_acquired, date_sold, proceeds, cost_basis, c, holding_days) ==
    [date_acquired |-> date_acquired,
     date_sold     |-> date_sold,
     proceeds      |-> proceeds,
     cost_basis    |-> cost_basis,
     gain_loss     |-> c.bitwave_gain_loss,
     is_short_term |-> c.is_short_term,
     holding_days  |-> holding_days,
     txn_id        |-> r.txnId]

NoTransaction ==
    [date_acquired |-> 0, date_sold |-> 0, proceeds |-> Zero, cost_basis |-> Zero,
     gain_loss |-> Zero, is_short_term |-> FALSE, holding_days |-> 0, txn_id |-> 0]

\* What one pass through the loop body does with a 'sell' row: how the pass
\* ends, the warnings it appends, and the record it appends when it ends
\* "processed".
RowOutcome(r, y) ==
    LET sold == ParseTimestamp(r.timestampSEC)
        acq  == ParseTimestamp(r.lotAcquisitionTimestampSEC)
        holding_days  == HoldingDays(sold.t, acq.t)
        proceeds      == clean_bitwave_currency_value(r.proceeds)
        cost_basis    == clean_bitwave_currency_value(r.costBasisRelieved)
        short_term_gl == clean_bitwave_currency_value(r.shortTermGainLoss)
        long_term_gl  == clean_bitwave_currency_value(r.longTermGainLoss)
        c == Classify(short_term_gl, long_term_gl, holding_days)
        w == (IF BothTermsReported(short_term_gl, long_term_gl)
              THEN <<Warning("both_terms", r)>> ELSE <<>>)
             \o (IF CrossCheckFails(proceeds, cost_basis, c.bitwave_gain_loss)
                 THEN <<Warning("cross_check", r)>> ELSE <<>>)
    IN  IF ~sold.ok
        THEN [end |-> "error", warnings |-> <<Warning("sale_timestamp", r)>>,
              transaction |-> NoTransaction]
        ELSE IF ~acq.ok
        THEN [end |-> "error", warnings |-> <<Warning("acquisition_timestamp", r)>>,
              transaction |-> NoTransaction]
        ELSE IF ~InTaxYear(sold.t, y)
        THEN [end |-> "filtered", warnings |-> <<>>, transaction |-> NoTransaction]
        ELSE IF DescriptionRaises(r)
        THEN [end |-> "error", warnings |-> w \o <<Warning("row_error", r)>>,
              transaction |-> NoTransaction]
        ELSE [end |-> "processed", warnings |-> w,
              transaction |-> Transaction(r, acq.t, sold.t, proceeds, cost_basis, c,
                                          holding_days)]

-----------------------------------------------------------------------------
(* separate_bitwave_transactions_by_term *)

ShortTermOf(ts) == SelectSeq(ts, LAMBDA t : t.is_short_term)
\* splits by the holding period instead of the classification
LongTermByHolding(ts) == SelectSeq(ts, LAMBDA t : t.holding_days > HoldingPeriodLimit)
LongTermOf(ts)  == SelectSeq(ts, LAMBDA t : ~t.is_short_term)

-----------------------------------------------------------------------------
(* SpecClean: one raw cell, cleaned *)

CleanAlphabet == {"(", ")", "-", "$", ",", " ", ".", "1", "5"}

CleanSamples ==
    { <<"(", "1", ",", "2", "3", "4", ".", "5", "6", ")">>,
      <<"(", "1", "2", "3", ".", "4", "5", ")">>,
      <<"$", "4", "5", ".", "0", "0">>,
      <<"a", "b", "c">>,
      <<"n", "u", "l", "l">>,
      <<"N", "o", "n", "e">>,
      <<" ", "-", " ", " ", " ">> }

CleanInputs ==
    {NaN} \cup {Str(s) : s \in CleanSamples}
          \cup {Str(s) : s \in UNION {[1..n -> CleanAlphabet] : n \in 0..MaxLen}}

NoDownload == [kind |-> "none", files |-> <<>>]

\* no amount is being drawn
NotDrawing == place = "none" /\ gain_loss = Zero /\ gain_loss_text = <<>>

Idle ==
    /\ tax_year = 2024 /\ row = NaN /\ n_rows = 0 /\ sell_count = 0
    /\ transactions = <<>> /\ validation_warnings = <<>>
    /\ processed_count = 0 /\ error_count = 0 /\ filtered_out_count = 0
    /\ short_term = <<>> /\ long_term = <<>>
    /\ part_type = "none" /\ page_num = 0 /\ pdf_files = <<>> /\ fetch_count = 0
    /\ taxpayer_entered = TRUE /\ download = NoDownload

InitClean ==
    /\ pc = "clean"
    /\ value \in CleanInputs
    /\ result = Zero
    /\ Idle
    /\ NotDrawing

Clean ==
    /\ pc = "clean"
    /\ result' = clean_bitwave_currency_value(value)
    /\ pc' = "cleaned"
    /\ UNCHANGED <<value, rowVars, termVars, pageVars, drawVars>>

NextClean == Clean

SpecClean == InitClean /\ [][NextClean]_vars

-----------------------------------------------------------------------------
(* Spec: main from the upload to the two partitions *)

\* the years of the "Tax Year" selectbox the model runs
TaxYears == {2023, 2024}

T(s) == Str(s)
Blank    == <<" ", "-", " ", " ", " ">>
Amt100   == <<"1", "0", "0", ".", "0", "0">>
Amt40    == <<"4", "0", ".", "0", "0">>
Amt60    == <<"6", "0", ".", "0", "0">>
Amt60_01 == <<"6", "0", ".", "0", "1">>
Amt60_03 == <<"6", "0", ".", "0", "3">>
Amt35    == <<"$", "3", "5", ".", "0", "0">>
Amt25    == <<"2", "5", ".", "0", "0">>
Amt74_50 == <<"7", "4", ".", "5", "0">>
Loss25_5 == <<"(", "2", "5", ".", "5", "0", ")">>
Amt1234  == <<"1", ",", "2", "3", "4", ".", "5", "6">>

Money(p, c, st, lt) ==
    [proceeds |-> p, costBasisRelieved |-> c, shortTermGainLoss |-> st, longTermGainLoss |-> lt]

NoSignal   == Money(T(Amt100), T(Amt40), NaN, T(Blank))
NoGain     == Money(T(Amt40), T(Amt40), NaN, NaN)
ShortOnly  == Money(T(Amt100), T(Amt40), T(Amt60), T(Blank))
LongOnly   == Money(T(Amt100), T(Amt40), NaN, T(Amt60))
BothTerms  == Money(T(Amt100), T(Amt40), T(Amt35), T(Amt25))
ShortLoss  == Money(T(Amt74_50), T(Amt100), T(Loss25_5), NaN)
OneCent    == Money(T(Amt100), T(Amt40), T(Amt60_01), NaN)
ThreeCents == Money(T(Amt100), T(Amt40), NaN, T(Amt60_03))
BothOff    == Money(T(Amt1234), T(Amt40), T(Amt35), T(Loss25_5))

MoneyCases ==
    {NoSignal, NoGain, ShortOnly, LongOnly, BothTerms, ShortLoss, OneCent, ThreeCents, BothOff}

\* 2023-12-31 23:59:59 as the text of a numeric cell in a column read as text
Text2023End == <<"1", "7", "0", "4", "0", "6", "7", "1", "9", "9">>

SaleCells(y) ==
    { Num(tax_year_start(y) - 1), Num(tax_year_start(y)),
      Num(tax_year_end(y)), Num(tax_year_end(y) + 1),
      NaN, Num(0), T(<<"0">>), T(<<"a", "b", "c">>), T(<<>>), T(Text2023End) }

\* acquired: one second before the year, at its start, 400 days before it,
\* one second after it (after every sale of the year), or not a timestamp
Held(y)     == Num(tax_year_start(y) - 1)
HeldLong(y) == Num(tax_year_start(y) - 400 * SecondsPerDay)
Inverted(y) == Num(tax_year_end(y) + 1)
AcqCells(y) ==
    { Held(y), Num(tax_year_start(y)), HeldLong(y), Inverted(y),
      NaN, Num(0), T(<<"0">>), T(<<"a", "b", "c">>) }

SellRow(sale, acq, money, adj) ==
    [action |-> "sell", txnId |-> 0, timestampSEC |-> sale,
     lotAcquisitionTimestampSEC |-> acq, assetUnitAdj |-> adj,
     proceeds |-> money.proceeds, costBasisRelieved |-> money.costBasisRelieved,
     shortTermGainLoss |-> money.shortTermGainLoss,
     longTermGainLoss |-> money.longTermGainLoss]

BuyRow == [SellRow(NaN, NaN, NoSignal, Num(22)) EXCEPT !.action = "buy"]

Units    == Num(22)
BadUnits == T(<<"a", "b", "c">>)

\* the rows a DataFrame of the model is made of, for tax year y
RowSamples(y) ==
    {BuyRow}
    \cup {SellRow(s, Num(tax_year_start(y)), NoSignal, Units) : s \in SaleCells(y)}
    \cup {SellRow(Num(tax_year_end(y)), a, NoSignal, Units) : a \in AcqCells(y)}
    \cup {SellRow(Num(tax_year_end(y)), Num(tax_year_start(y)), m, Units) : m \in MoneyCases}
    \cup {SellRow(Num(tax_year_end(y)), a, m, Units) :
             a \in {HeldLong(y), Inverted(y)}, m \in {ShortOnly, LongOnly, BothTerms}}
    \cup {SellRow(s, Num(tax_year_start(y)), BothTerms, BadUnits) :
             s \in {Num(tax_year_end(y)), Num(tax_year_end(y) + 1), NaN}}
    \cup {SellRow(s, a, NoSignal, Units) :
             s \in {Num(tax_year_start(y) - 1), Num(tax_year_end(y) + 1)},
             a \in {NaN, T(<<"a", "b", "c">>)}}

DataFrameRows == [y \in TaxYears |-> RowSamples(y)]

Init ==
    /\ pc = "rows"
    /\ tax_year \in TaxYears
    /\ row = BuyRow /\ n_rows = 0 /\ sell_count = 0
    /\ transactions = <<>> /\ validation_warnings = <<>>
    /\ processed_count = 0 /\ error_count = 0 /\ filtered_out_count = 0
    /\ value = NaN /\ result = Zero
    /\ short_term = <<>> /\ long_term = <<>>
    /\ part_type = "none" /\ page_num = 0 /\ pdf_files = <<>> /\ fetch_count = 0
    /\ taxpayer_entered = TRUE /\ download = NoDownload
    /\ NotDrawing

\* the loop body run on every row of df, whatever its action
ProcessRowUnfiltered ==
    /\ pc = "rows"
    /\ n_rows < MaxRows
    /\ \E r \in DataFrameRows[tax_year] :
         LET this == [r EXCEPT !.txnId = n_rows + 1]
             out  == RowOutcome(this, tax_year)
         IN  /\ row' = this
             /\ n_rows' = n_rows + 1
             /\ sell_count' = sell_count + (IF this.action = "sell" THEN 1 ELSE 0)
             /\ validation_warnings' = validation_warnings \o out.warnings
             /\ transactions' = IF out.end = "processed"
                                THEN Append(transactions, out.transaction)
                                ELSE transactions
             /\ processed_count' = processed_count + (IF out.end = "processed" THEN 1 ELSE 0)
             /\ error_count' = error_count + (IF out.end = "error" THEN 1 ELSE 0)
             /\ filtered_out_count' =
                    filtered_out_count + (IF out.end = "filtered" THEN 1 ELSE 0)
    /\ UNCHANGED <<pc, tax_year, cleanVars, drawVars, termVars, pageVars>>

\* One row of df: df[df['action'] == 'sell'] keeps or drops it, and the loop
\* body runs on a row that is kept.  txnId is the row's position in df.
ProcessRow ==
    /\ pc = "rows"
    /\ n_rows < MaxRows
    /\ \E r \in DataFrameRows[tax_year] :
         LET this == [r EXCEPT !.txnId = n_rows + 1]
             out  == RowOutcome(this, tax_year)
         IN  /\ row' = this
             /\ n_rows' = n_rows + 1
             /\ IF this.action = "sell"
                THEN /\ sell_count' = sell_count + 1
                     /\ validation_warnings' = validation_warnings \o out.warnings
                     /\ transactions' = IF out.end = "processed"
                                        THEN Append(transactions, out.transaction)
                                        ELSE transactions
                     /\ processed_count' = processed_count + (IF out.end = "processed" THEN 1 ELSE 0)
                     /\ error_count' = error_count + (IF out.end = "error" THEN 1 ELSE 0)
                     /\ filtered_out_count' =
                            filtered_out_count + (IF out.end = "filtered" THEN 1 ELSE 0)
                ELSE UNCHANGED <<sell_count, validation_warnings, transactions,
                                 processed_count, error_count, filtered_out_count>>
    /\ UNCHANGED <<pc, tax_year, cleanVars, drawVars, termVars, pageVars>>

\* process_bitwave_transactions returns: at once, with one warning, when df
\* holds no 'sell' row, else after the last row
Return ==
    /\ pc = "rows"
    /\ validation_warnings' =
           IF sell_count = 0
           THEN Append(validation_warnings, [kind |-> "no_sell_actions", txn |-> 0])
           ELSE validation_warnings
    /\ pc' = "returned"
    /\ UNCHANGED <<tax_year, row, n_rows, sell_count, transactions, processed_count,
                   error_count, filtered_out_count, cleanVars, drawVars, termVars, pageVars>>

\* main: "if not transactions: ... return"
NoTransactions ==
    /\ pc = "returned"
    /\ transactions = <<>>
    /\ pc' = "failed"
    /\ UNCHANGED <<rowVars, cleanVars, drawVars, termVars, pageVars>>

\* main: short_term, long_term = separate_bitwave_transactions_by_term(transactions)
Separate ==
    /\ pc = "returned"
    /\ transactions # <<>>
    /\ short_term' = ShortTermOf(transactions)
    /\ long_term' = LongTermOf(transactions)
    /\ pc' = "separated"
    /\ UNCHANGED <<rowVars, cleanVars, drawVars, pageVars>>

Next == ProcessRow \/ Return \/ NoTransactions \/ Separate

Spec == Init /\ [][Next]_vars

-----------------------------------------------------------------------------
(* The renderers: what a document shows *)

\* sum(xs[lo..hi]); decimal addition is exact, so the halves may be summed
\* apart (sum() adds from the left)
RECURSIVE DecSumRange(_, _, _)
DecSumRange(xs, lo, hi) ==
    IF lo > hi THEN Zero
    ELSE IF lo = hi THEN xs[lo]
    ELSE LET mid == (lo + hi) \div 2
         IN  DecAdd(DecSumRange(xs, lo, mid), DecSumRange(xs, mid + 1, hi))
DecSum(xs) == DecSumRange(xs, 1, Len(xs))

\* sum(t[field] for t in all_transactions)
Total(all_transactions, field) ==
    DecSum([i \in 1..Len(all_transactions) |-> all_transactions[i][field]])

Totals(all_transactions) ==
    [drawn      |-> TRUE,
     proceeds   |-> Total(all_transactions, "proceeds"),
     cost_basis |-> Total(all_transactions, "cost_basis"),
     gain_loss  |-> Total(all_transactions, "gain_loss")]

NoTotals == [drawn |-> FALSE, proceeds |-> Zero, cost_basis |-> Zero, gain_loss |-> Zero]

\* rows a renderer draws: enumerate(transactions[:14])
RowsPerForm == 14
DrawnRows(page_transactions) ==
    SubSeq(page_transactions, 1,
           IF Len(page_transactions) < RowsPerForm THEN Len(page_transactions) ELSE RowsPerForm)

-----------------------------------------------------------------------------
(* The renderers: the text of an amount *)

\* An amount to draw is a float [m, e] as above; e < 0 stands for -e zeros
\* after the digits of m, a whole number too large for m alone.  Amounts of
\* more than two decimals, whose rounding the binary value decides, are not
\* drawn by the model.

DigitChar(d) == Digits[d + 1]

RECURSIVE NatDigits(_)
NatDigits(n) ==
    IF n < 10 THEN <<DigitChar(n)>> ELSE Append(NatDigits(n \div 10), DigitChar(n % 10))

Zeros(k) == IF k <= 0 THEN <<>> ELSE [i \in 1..k |-> "0"]

\* the digits of |x| in hundredths, three of them at least
HundredthsDigits(x) ==
    LET ds == IF x.m = 0 THEN <<"0">> ELSE NatDigits(Abs(x.m)) \o Zeros(2 - x.e)
    IN  Zeros(3 - Len(ds)) \o ds

\* the "," option of the format: groups of three digits from the right
RECURSIVE Grouped(_)
Grouped(ds) ==
    IF Len(ds) <= 3 THEN ds
    ELSE Grouped(SubSeq(ds, 1, Len(ds) - 3)) \o <<",">> \o SubSeq(ds, Len(ds) - 2, Len(ds))

\* the digits of a whole number plus one
RECURSIVE Successor(_)
Successor(ds) ==
    IF ds = <<>> THEN <<"1">>
    ELSE LET front == SubSeq(ds, 1, Len(ds) - 1)
             last  == DigitVal(ds[Len(ds)])
         IN  IF last = 9 THEN Append(Successor(front), "0")
             ELSE Append(front, DigitChar(last + 1))

\* |x| rounded to a whole number, a tie going to the even neighbour (a
\* fraction of exactly one half is exact in a double)
RoundedWhole(x) ==
    LET ds    == HundredthsDigits(x)
        whole == SubSeq(ds, 1, Len(ds) - 2)
        frac  == 10 * DigitVal(ds[Len(ds) - 1]) + DigitVal(ds[Len(ds)])
        odd   == DigitVal(whole[Len(whole)]) % 2 = 1
    IN  IF frac > 50 \/ (frac = 50 /\ odd) THEN Successor(whole) ELSE whole

MinusSign(x) == IF x.m < 0 THEN <<"-">> ELSE <<>>

\* f"{x:,.2f}"
Fixed2(x) ==
    LET ds == HundredthsDigits(x)
    IN  MinusSign(x) \o Grouped(SubSeq(ds, 1, Len(ds) - 2)) \o <<".">>
            \o SubSeq(ds, Len(ds) - 1, Len(ds))

\* f"{x:,.0f}"
Fixed0(x) == MinusSign(x) \o Grouped(RoundedWhole(x))

\* c.stringWidth(text) in Helvetica, in thousandths of the font size: the
\* advance widths of the digits, of "," and ".", and of "(", ")" and "-"
TextWidth(text) ==
    LET digits == Len(SelectSeq(text, IsDigit))
        points == Len(SelectSeq(text, LAMBDA ch : ch \in {",", "."}))
    IN  556 * digits + 278 * points + 333 * (Len(text) - digits - points)

\* c.setFont("Helvetica", 5.5), in tenths of a point
FontSize == 55

\* "Column width limit" of the gain/loss column, in points
GainLossWidth == 70

\* c.stringWidth(text) > limit
Wider(text, limit) == TextWidth(text) * FontSize > limit * 10000

Parentheses(text) == <<"(">> \o text \o <<")">>

\* a row of the templated renderer that drops the parentheses with the decimals
GainLossTextBareWhenWide(gl) ==
    LET text == IF gl.m < 0 THEN Parentheses(Fixed2(DecAbs(gl))) ELSE Fixed2(gl)
    IN  IF Wider(text, GainLossWidth) THEN Fixed0(DecAbs(gl)) ELSE text

\* gain_loss_text of a row of the templated renderer
OfficialGainLossText(gl) ==
    LET text == IF gl.m < 0 THEN Parentheses(Fixed2(DecAbs(gl))) ELSE Fixed2(gl)
    IN  IF Wider(text, GainLossWidth)
        THEN IF gl.m < 0 THEN Parentheses(Fixed0(DecAbs(gl))) ELSE Fixed0(gl)
        ELSE text

\* total_gl_text of the templated renderer
OfficialTotalGainLossText(total_gain_loss) ==
    IF total_gain_loss.m < 0 THEN Parentheses(Fixed2(DecAbs(total_gain_loss)))
    ELSE Fixed2(total_gain_loss)

\* the gain/loss text of the fallback renderer, of a row and of the totals
CustomGainLossText(gl) ==
    IF gl.m >= 0 THEN Fixed2(gl) ELSE Parentheses(Fixed2(DecAbs(gl)))

-----------------------------------------------------------------------------
(* The renderers: where a row and the totals are drawn *)

\* the columns a row is drawn in
RowColumns == {"description", "date_acquired", "date_sold", "proceeds", "cost_basis", "gain_loss"}

table_start_y(part) == IF part = "Part I" THEN 425 ELSE 465

row_height == 24

\* totals one row pitch below the last row
TotalsYOnePitchBelow(part) == table_start_y(part) - (14 * row_height)

\* y_pos of row i (from 0) of the templated renderer, column by column
OfficialRowY(part, i) == [col \in RowColumns |-> table_start_y(part) - (i * row_height)]

\* totals_y of the templated renderer
OfficialTotalsY(part) == table_start_y(part) - (14 * row_height) - 15

\* width, height = letter
height == 792

\* y_pos of row i (from 0) and totals_y of the fallback renderer
CustomRowY(i) == [col \in RowColumns |-> height - 210 - (i * 15)]
CustomTotalsY == height - 210 - (14 * 15) - 20

\* no totals drawn
NoTotalsY == 0

-----------------------------------------------------------------------------
(* The renderers: the template, and the two documents *)

\* get_official_form_8949 and PyPDF2.PdfReader on what it returns: no content
\* (an exception or a status other than 200), content that is no PDF, or a
\* PDF of some number of pages
NoTemplate        == [status |-> "none", pages |-> 0]
UnreadableTemplate == [status |-> "unreadable", pages |-> 0]
Template(n)       == [status |-> "pdf", pages |-> n]
Fetched == {NoTemplate, UnreadableTemplate, Template(0), Template(1), Template(2)}

\* "Part I = page 1, Part II = page 2", and page 1 when the PDF is too short
TemplatePageNum(part, official_pdf) ==
    LET template_page_num == IF part = "Part I" THEN 0 ELSE 1
    IN  IF template_page_num >= official_pdf.pages THEN 0 ELSE template_page_num

\* "Add totals on final page", of the templated renderer
OfficialDrawsTotals(page_transactions, page, total_pages) ==
    page = total_pages /\ Len(page_transactions) > 0

\* "Totals (on last page only)", of the fallback renderer
CustomDrawsTotals(page, total_pages) == page = total_pages

\* create_form_with_official_template: success, and the document written
create_form_with_official_template(page_transactions, part, page, total_pages, all_transactions, official_pdf) ==
    IF official_pdf.status # "pdf" \/ official_pdf.pages = 0
    THEN [success |-> FALSE,
          content |-> [renderer |-> "none", template_page |-> 0, part_type |-> part,
                       rows |-> <<>>, row_y |-> <<>>,
                       totals |-> NoTotals, totals_y |-> NoTotalsY]]
    ELSE [success |-> TRUE,
          content |-> [renderer |-> "official",
                       template_page |-> TemplatePageNum(part, official_pdf),
                       part_type |-> part,
                       rows |-> DrawnRows(page_transactions),
                       row_y |-> [i \in 1..Len(DrawnRows(page_transactions)) |->
                                     OfficialRowY(part, i - 1)],
                       totals |-> IF OfficialDrawsTotals(page_transactions, page, total_pages)
                                  THEN Totals(all_transactions) ELSE NoTotals,
                       totals_y |-> IF OfficialDrawsTotals(page_transactions, page, total_pages)
                                    THEN OfficialTotalsY(part) ELSE NoTotalsY]]

\* create_custom_form_8949: the document written
create_custom_form_8949(page_transactions, part, page, total_pages, all_transactions) ==
    [renderer |-> "custom", template_page |-> 0, part_type |-> part,
     rows |-> DrawnRows(page_transactions),
     row_y |-> [i \in 1..Len(DrawnRows(page_transactions)) |-> CustomRowY(i - 1)],
     totals |-> IF CustomDrawsTotals(page, total_pages)
                THEN Totals(all_transactions) ELSE NoTotals,
     totals_y |-> IF CustomDrawsTotals(page, total_pages) THEN CustomTotalsY ELSE NoTotalsY]

-----------------------------------------------------------------------------
(* generate_form_8949_pages *)

transactions_per_page == 14

TotalPages(ts) == (Len(ts) + transactions_per_page - 1) \div transactions_per_page

Min(a, b) == IF a <= b THEN a ELSE b

PageTransactionsOffByOne(ts, p) ==
    LET start_idx == p * transactions_per_page
        end_idx   == Min(start_idx + transactions_per_page, Len(ts))
    IN  SubSeq(ts, start_idx + 1, end_idx - 1)

\* transactions[start_idx:end_idx] for range index p (0-based)
PageTransactions(ts, p) ==
    LET start_idx == p * transactions_per_page
        end_idx   == Min(start_idx + transactions_per_page, Len(ts))
    IN  SubSeq(ts, start_idx + 1, end_idx)

TermSuffix(part) == IF part = "Part I" THEN "Short_Term" ELSE "Long_Term"

\* the filename: the page number is left out (0 here) of a one-page partition
Filename(part, p, total_pages, year) ==
    [year |-> year, term_suffix |-> TermSuffix(part),
     page |-> IF total_pages = 1 THEN 0 ELSE p + 1]

\* the list both renderers are handed as all_transactions
AllTransactionsOfPage(ts, page_transactions) == page_transactions
AllTransactions(ts, page_transactions) == ts

\* one pass of "for page_num in range(total_pages)" without the fallback: the
\* buffer holds whatever the templated renderer wrote
PdfFileWithoutFallback(ts, part, p, year, official_pdf) ==
    LET total_pages == TotalPages(ts)
        page_transactions == PageTransactions(ts, p)
        all_transactions  == AllTransactions(ts, page_transactions)
    IN  [filename |-> Filename(part, p, total_pages, year),
         page_num |-> p + 1,
         page_transactions |-> page_transactions,
         official_pdf |-> official_pdf,
         content  |-> create_form_with_official_template(
                          page_transactions, part, p + 1, total_pages, all_transactions,
                          official_pdf).content]

\* one pass of "for page_num in range(total_pages)"; official_pdf is what
\* get_official_form_8949 returned to this pass
PdfFile(ts, part, p, year, official_pdf) ==
    LET total_pages == TotalPages(ts)
        page_transactions == PageTransactions(ts, p)
        all_transactions  == AllTransactions(ts, page_transactions)
        official == create_form_with_official_template(
                        page_transactions, part, p + 1, total_pages, all_transactions,
                        official_pdf)
    IN  [filename |-> Filename(part, p, total_pages, year),
         page_num |-> p + 1,
         page_transactions |-> page_transactions,
         official_pdf |-> official_pdf,
         content  |-> IF official.success THEN official.content
                      ELSE create_custom_form_8949(page_transactions, part, p + 1,
                                                   total_pages, all_transactions)]

Partition(part) == IF part = "Part I" THEN short_term ELSE long_term

-----------------------------------------------------------------------------
(* SpecPages: main from the records returned to the download offered *)

\* record i of a partition: amounts that differ from record to record, with
\* every third record a loss; in a losing run every record but each third
Amount(i) == Dec(1000 * i + 125, 2)
SampleRecord(i, is_short, losing) ==
    LET proceeds   == Amount(i)
        gain       == (i % 3 = 0) # losing
        cost_basis == IF gain THEN Amount(i - 1) ELSE Amount(i + 2)
    IN  [date_acquired |-> tax_year_start(2023) + i * SecondsPerDay
                           - (IF is_short THEN 30 ELSE 400) * SecondsPerDay,
         date_sold     |-> tax_year_start(2023) + i * SecondsPerDay,
         proceeds      |-> proceeds,
         cost_basis    |-> cost_basis,
         gain_loss     |-> DecSub(proceeds, cost_basis),
         is_short_term |-> is_short,
         holding_days  |-> IF is_short THEN 30 ELSE 400,
         txn_id        |-> i]

SamplePartition(n, is_short, losing) ==
    [i \in 1..n |-> SampleRecord(IF is_short THEN i ELSE MaxShort + 1 + i, is_short, losing)]

\* process_bitwave_transactions has returned ns short-term records followed
\* by nl long-term ones (none at all when ns = nl = 0)
InitPages ==
    /\ pc = "returned"
    /\ tax_year = 2023
    /\ \E ns \in 0..MaxShort, nl \in 0..MaxLong, losing \in BOOLEAN :
         transactions = SamplePartition(ns, TRUE, losing) \o SamplePartition(nl, FALSE, losing)
    /\ short_term = <<>> /\ long_term = <<>>
    /\ row = BuyRow /\ n_rows = 0 /\ sell_count = 0
    /\ validation_warnings = <<>>
    /\ processed_count = 0 /\ error_count = 0 /\ filtered_out_count = 0
    /\ value = NaN /\ result = Zero
    /\ part_type = "none" /\ page_num = 0 /\ pdf_files = <<>> /\ fetch_count = 0
    /\ taxpayer_entered \in BOOLEAN
    /\ download = NoDownload
    /\ NotDrawing

\* "Please enter taxpayer name and SSN before generating forms."
MissingTaxpayer ==
    /\ pc = "separated"
    /\ ~taxpayer_entered
    /\ pc' = "stopped"
    /\ UNCHANGED <<cleanVars, drawVars, rowVars, termVars, pageVars>>

\* the partition generate_all_forms turns to after `part` ("done" after the last)
NextPart(part) ==
    IF part = "none" /\ short_term # <<>> THEN "Part I"
    ELSE IF part \in {"none", "Part I"} /\ long_term # <<>> THEN "Part II"
    ELSE "done"

\* generate_all_forms is called
StartForms ==
    /\ pc = "separated"
    /\ taxpayer_entered
    /\ part_type' = NextPart("none")
    /\ page_num' = 0
    /\ pc' = "generating"
    /\ UNCHANGED <<pdf_files, fetch_count, taxpayer_entered, download,
                   cleanVars, drawVars, rowVars, termVars>>

\* one page group of generate_form_8949_pages: the template is fetched, the
\* page is rendered, the document is appended
GeneratePage ==
    /\ pc = "generating"
    /\ part_type \in {"Part I", "Part II"}
    /\ \E official_pdf \in Fetched :
         pdf_files' = Append(pdf_files,
                             PdfFile(Partition(part_type), part_type, page_num, tax_year,
                                     official_pdf))
    /\ fetch_count' = fetch_count + 1
    /\ IF page_num + 1 < TotalPages(Partition(part_type))
       THEN /\ page_num' = page_num + 1
            /\ part_type' = part_type
       ELSE /\ page_num' = 0
            /\ part_type' = NextPart(part_type)
    /\ UNCHANGED <<pc, taxpayer_entered, download, cleanVars, drawVars, rowVars, termVars>>

\* an archive that lacks the first document
ZipWithoutFirst(files) == [i \in 1..(Len(files) - 1) |-> files[i + 1].filename]

\* create_zip_file: one entry per document, under its filename, in order
create_zip_file(files) == [i \in 1..Len(files) |-> files[i].filename]

\* main, after generate_all_forms has returned
Download ==
    /\ pc = "generating"
    /\ part_type = "done"
    /\ download' = IF pdf_files = <<>> THEN [kind |-> "error", files |-> <<>>]
                   ELSE IF Len(pdf_files) = 1
                   THEN [kind |-> "pdf", files |-> <<pdf_files[1].filename>>]
                   ELSE [kind |-> "zip", files |-> create_zip_file(pdf_files)]
    /\ pc' = "offered"
    /\ UNCHANGED <<part_type, page_num, pdf_files, fetch_count, taxpayer_entered,
                   cleanVars, drawVars, rowVars, termVars>>

NextPages ==
    NoTransactions \/ Separate \/ MissingTaxpayer \/ StartForms \/ GeneratePage \/ Download

SpecPages == InitPages /\ [][NextPages]_vars

-----------------------------------------------------------------------------
(* SpecDraw: the gain/loss text of one amount, in each place it is drawn *)

\* m followed by k zeros
Whole(m, k) == [m |-> m, e |-> -k]

\* amounts in hundredths, and whole amounts of 13 to MaxZeros + 3 digits
\* (m * 10^k is a double exactly for these m and k)
DrawnMagnitudes ==
    {Dec(c, 2) : c \in {0, 1, 50, 150, 250, 2550, 6000, 99999, 100000, 123456789}}
        \cup {Whole(m, k) : m \in {1, 12, 255}, k \in 12..MaxZeros}

DrawnAmounts == DrawnMagnitudes \cup {DecNeg(a) : a \in DrawnMagnitudes}

\* a row or the totals, of the templated or of the fallback renderer
Places == {"official_row", "official_totals", "custom_row", "custom_totals"}

InitDraw ==
    /\ pc = "draw"
    /\ place \in Places
    /\ gain_loss \in DrawnAmounts
    /\ gain_loss_text = <<>>
    /\ value = NaN /\ result = Zero
    /\ Idle

DrawGainLoss ==
    /\ pc = "draw"
    /\ gain_loss_text' =
           CASE place = "official_row"    -> OfficialGainLossText(gain_loss)
             [] place = "official_totals" -> OfficialTotalGainLossText(gain_loss)
             [] OTHER                     -> CustomGainLossText(gain_loss)
    /\ pc' = "drawn"
    /\ UNCHANGED <<place, gain_loss, cleanVars, rowVars, termVars, pageVars>>

NextDraw == DrawGainLoss

SpecDraw == InitDraw /\ [][NextDraw]_vars

-----------------------------------------------------------------------------
(* Properties of generate_all_forms  (SpecPages) *)

Parts == {"Part I", "Part II"}

\* the documents of one partition, in the order generated
DocsOf(part) == SelectSeq(pdf_files, LAMBDA d : d.content.part_type = part)

\* the page groups of a list of documents, one after the other
RECURSIVE Concatenated(_)
Concatenated(docs) ==
    IF docs = <<>> THEN <<>> ELSE Head(docs).page_transactions \o Concatenated(Tail(docs))

FormsGenerated == pc \in {"generating", "offered"} /\ part_type = "done"

\* C1: once generate_all_forms has returned, a partition of n records has
\* ceil(n / 14) page groups (none when n = 0), numbered 1, 2, ... in order;
\* the groups concatenated in page order are the partition list; every
\* group but the last holds exactly 14 records and no group is empty.
C1_Pagination ==
    FormsGenerated =>
        \A part \in Parts :
            LET docs == DocsOf(part)
                n    == Len(Partition(part))
                k    == Len(docs)
            IN  /\ 14 * (k - 1) < n /\ n <= 14 * k
                /\ Concatenated(docs) = Partition(part)
                /\ \A i \in 1..k :
                      /\ docs[i].page_num = i
                      /\ Len(docs[i].page_transactions) >= 1
                      /\ i < k => Len(docs[i].page_transactions) = 14

\* a short-term partition of 20 records in two groups (14 + 6) beside a
\* long-term partition of 15 records in two groups (14 + 1)
C1_Witness ==
    /\ FormsGenerated
    /\ Len(short_term) = 20 /\ Len(long_term) = 15
    /\ Len(DocsOf("Part I")) = 2 /\ Len(DocsOf("Part II")) = 2
    /\ Len(pdf_files[2].page_transactions) = 6
    /\ Len(pdf_files[4].page_transactions) = 1

\* an amount of at most two decimals, in cents
Cents(d) == d.m * Pow10(2 - d.e)

RECURSIVE CentsOf(_, _, _)
CentsOf(ts, field, n) ==
    IF n = 0 THEN 0 ELSE CentsOf(ts, field, n - 1) + Cents(ts[n][field])
SumInCents(ts, field) ==
    LET half == Len(ts) \div 2
    IN  CentsOf(SubSeq(ts, 1, half), field, half)
          + CentsOf(SubSeq(ts, half + 1, Len(ts)), field, Len(ts) - half)

AmountFields == {"proceeds", "cost_basis", "gain_loss"}

\* C2: a document shows the three totals iff its page number is the page
\* count of its partition, whichever renderer wrote it, and each total shown
\* is the sum of that amount over all records of the partition.
C2_TotalsOnFinalPage ==
    \A j \in 1..Len(pdf_files) :
        LET d    == pdf_files[j]
            all  == Partition(d.content.part_type)
            last == 14 * (d.page_num - 1) < Len(all) /\ Len(all) <= 14 * d.page_num
        IN  /\ d.content.renderer \in {"official", "custom"}
            /\ d.content.totals.drawn <=> last
            /\ d.content.totals.drawn =>
                  \A f \in AmountFields :
                      Cents(d.content.totals[f]) = SumInCents(all, f)

\* 20 short-term records: page 2 of 2 written by the templated renderer
\* shows the totals of all 20, which are not the totals of its own 6
\* records, and page 1 shows none; page 2 of the long-term partition is
\* written by the fallback renderer and shows totals too
C2_Witness ==
    /\ Len(short_term) = 20 /\ Len(pdf_files) = 4
    /\ pdf_files[1].content.totals.drawn = FALSE
    /\ pdf_files[2].content.renderer = "official"
    /\ pdf_files[2].content.totals.drawn
    /\ Cents(pdf_files[2].content.totals.proceeds) = SumInCents(short_term, "proceeds")
    /\ SumInCents(short_term, "proceeds")
          # SumInCents(pdf_files[2].page_transactions, "proceeds")
    /\ pdf_files[4].content.renderer = "custom"
    /\ pdf_files[4].content.part_type = "Part II"
    /\ pdf_files[4].content.totals.drawn

\* the records returned, counted by term, and the page groups they make
NShort == Cardinality({i \in 1..Len(transactions) : transactions[i].is_short_term})
NLong  == Len(transactions) - NShort
DocumentCount == (NShort + 13) \div 14 + (NLong + 13) \div 14

\* the run has ended: no records, no taxpayer, or a download offered
Ended == pc \in {"failed", "stopped", "offered"}

\* C14: with d = ceil(|short| / 14) + ceil(|long| / 14) documents, d = 1
\* offers the one PDF itself under its filename, with no archive; d > 1
\* offers one archive whose entries are the documents' filenames, each once,
\* short-term before long-term and pages ascending; d = 0 ends in the
\* failure message with no document and no download.  15 short-term records
\* alone make 2 documents (14 + 1) in an archive.
C14_OutputForm ==
    /\ pc = "offered" =>
          /\ Len(pdf_files) = DocumentCount
          /\ DocumentCount >= 1
          /\ DocumentCount = 1 =>
                download = [kind |-> "pdf", files |-> <<pdf_files[1].filename>>]
          /\ DocumentCount > 1 =>
                /\ download.kind = "zip"
                /\ Len(download.files) = DocumentCount
                /\ \A i \in 1..DocumentCount : download.files[i] = pdf_files[i].filename
                /\ \A i, j \in 1..DocumentCount :
                      i < j =>
                          /\ download.files[i] # download.files[j]
                          /\ download.files[i].term_suffix = "Long_Term" =>
                                download.files[j].term_suffix = "Long_Term"
                          /\ download.files[i].term_suffix = download.files[j].term_suffix =>
                                download.files[i].page < download.files[j].page
          /\ (NShort = 15 /\ NLong = 0) =>
                /\ download.kind = "zip"
                /\ Len(download.files) = 2
                /\ Len(pdf_files[1].page_transactions) = 14
                /\ Len(pdf_files[2].page_transactions) = 1
    /\ (Ended /\ DocumentCount = 0) =>
          pc = "failed" /\ pdf_files = <<>> /\ download = NoDownload
    /\ pc = "failed" => DocumentCount = 0
    /\ pc # "offered" => download = NoDownload

\* 15 short-term records and no long-term ones: an archive of two documents
C14_Witness ==
    /\ pc = "offered"
    /\ NShort = 15 /\ NLong = 0
    /\ download.kind = "zip"
    /\ download.files = <<[year |-> 2023, term_suffix |-> "Short_Term", page |-> 1],
                          [year |-> 2023, term_suffix |-> "Short_Term", page |-> 2]>>

\* the filename of page p of a partition of n records
FilenameOf(part, p, n) ==
    [year |-> tax_year,
     term_suffix |-> IF part = "Part I" THEN "Short_Term" ELSE "Long_Term",
     page |-> IF n <= 14 THEN 0 ELSE p]

\* C15: a page group whose template could not be retrieved is written by
\* the fallback renderer; whatever each retrieval returned, every document
\* is written by exactly one of the two renderers, and the documents are the
\* page groups of the short-term partition followed by those of the
\* long-term partition, in page order, under the filenames they have when
\* the template is there.
C15_RetrievalFailureNotFatal ==
    /\ \A j \in 1..Len(pdf_files) :
          LET d  == pdf_files[j]
              k1 == (Len(short_term) + 13) \div 14
              part == IF j <= k1 THEN "Part I" ELSE "Part II"
              p    == IF j <= k1 THEN j ELSE j - k1
          IN  /\ d.content.renderer \in {"official", "custom"}
              /\ d.official_pdf = NoTemplate => d.content.renderer = "custom"
              /\ d.content.part_type = part
              /\ d.page_num = p
              /\ d.filename = FilenameOf(part, p, Len(Partition(part)))
    /\ FormsGenerated =>
          Len(pdf_files) = (Len(short_term) + 13) \div 14 + (Len(long_term) + 13) \div 14

\* 15 short-term and 15 long-term records with no retrieval succeeding: four
\* documents, all written by the fallback renderer
C15_Witness ==
    /\ FormsGenerated
    /\ Len(short_term) = 15 /\ Len(long_term) = 15
    /\ Len(pdf_files) = 4
    /\ \A j \in 1..4 :
          /\ pdf_files[j].official_pdf = NoTemplate
          /\ pdf_files[j].content.renderer = "custom"
          /\ pdf_files[j].filename.page = IF j <= 2 THEN j ELSE j - 2

\* C16: one generation request fetches the template exactly once, however
\* many page groups it produces.
C16_SingleFetch ==
    /\ fetch_count <= 1
    /\ FormsGenerated => fetch_count = 1

\* C17: a long-term page group whose template has no second page is written
\* by the fallback renderer, and a templated document lies on the template
\* page of its own partition (the first for Part I, the second for Part II).
C17_MissingTemplatePage ==
    \A j \in 1..Len(pdf_files) :
        LET d == pdf_files[j]
            target == IF d.content.part_type = "Part I" THEN 0 ELSE 1
        IN  /\ (d.official_pdf.status = "pdf" /\ d.official_pdf.pages <= target) =>
                  d.content.renderer = "custom"
            /\ d.content.renderer = "official" => d.content.template_page = target

\* row_base of the two partitions, and the row pitch
RowBase == ("Part I" :> 425) @@ ("Part II" :> 465)
RowPitch == 24

\* the rows of every templated document lie at row_base - i * row_height,
\* every column of a row on the one y
TemplatedRowsOnPitch ==
    \A j \in 1..Len(pdf_files) :
        LET c == pdf_files[j].content
        IN  c.renderer = "official" =>
                /\ Len(c.row_y) = Len(pdf_files[j].page_transactions)
                /\ \A i \in 0..(Len(c.row_y) - 1) :
                      /\ i <= 13
                      /\ \A col \in DOMAIN c.row_y[i + 1] :
                            c.row_y[i + 1][col] = RowBase[c.part_type] - i * RowPitch
                      /\ {"proceeds", "cost_basis", "gain_loss"} \subseteq DOMAIN c.row_y[i + 1]

\* the totals of every templated document lie `below` points under the
\* fourteenth row pitch
TemplatedTotalsAt(below) ==
    \A j \in 1..Len(pdf_files) :
        LET c == pdf_files[j].content
        IN  (c.renderer = "official" /\ c.totals.drawn) =>
                c.totals_y = RowBase[c.part_type] - 14 * RowPitch - below

\* C19 as claimed: in the templated renderer record i of a page group is
\* drawn at y = row_base - i * row_height, all of its columns on that y, and
\* the totals at y = row_base - 14 * row_height, for Part I and Part II.
C19_AsClaimed == TemplatedRowsOnPitch /\ TemplatedTotalsAt(0)

\* C19 as amended: the same, with the totals 15 points lower, at
\* y = row_base - 14 * row_height - 15.
C19_RowCoordinates == TemplatedRowsOnPitch /\ TemplatedTotalsAt(15)

\* a templated long-term document of 14 rows with its totals: the last row
\* at 465 - 13 * 24 = 153 and the totals at 465 - 336 - 15 = 114, after a
\* templated short-term document with its totals at 425 - 336 - 15 = 74
C19_Witness ==
    /\ Len(pdf_files) = 2
    /\ pdf_files[1].content.renderer = "official"
    /\ pdf_files[1].content.part_type = "Part I"
    /\ pdf_files[1].content.row_y[1]["gain_loss"] = 425
    /\ pdf_files[1].content.totals_y = 74
    /\ pdf_files[2].content.renderer = "official"
    /\ pdf_files[2].content.part_type = "Part II"
    /\ Len(pdf_files[2].content.row_y) = 14
    /\ pdf_files[2].content.row_y[14]["proceeds"] = 153
    /\ pdf_files[2].content.totals.drawn
    /\ pdf_files[2].content.totals_y = 114


-----------------------------------------------------------------------------
(* Properties of process_bitwave_transactions and of the split  (Spec) *)

\* the row in hand has been through the loop body
RowRead == n_rows > 0 /\ row.action = "sell"

\* the row in hand was accepted: the last record is the one built from it
Accepted ==
    /\ RowRead
    /\ transactions # <<>>
    /\ transactions[Len(transactions)].txn_id = row.txnId

Record == transactions[Len(transactions)]

\* the row in hand has two timestamps and a quantity that can be read
Readable ==
    /\ ParseTimestamp(row.timestampSEC).ok
    /\ ParseTimestamp(row.lotAcquisitionTimestampSEC).ok
    /\ row.assetUnitAdj.kind # "str"

SaleDate == ParseTimestamp(row.timestampSEC).t
AcquisitionDate == ParseTimestamp(row.lotAcquisitionTimestampSEC).t

\* January 1 00:00:00 and December 31 23:59:59 of the years of the model,
\* in seconds since the epoch
Jan1  == (2023 :> 1672531200) @@ (2024 :> 1704067200) @@ (2025 :> 1735689600)
Dec31 == (2023 :> 1704067199) @@ (2024 :> 1735689599)

ShortAmount == clean_bitwave_currency_value(row.shortTermGainLoss)
LongAmount  == clean_bitwave_currency_value(row.longTermGainLoss)

\* the warnings of one kind about the row in hand
WarningsAbout(kind) ==
    Len(SelectSeq(validation_warnings, LAMBDA w : w.kind = kind /\ w.txn = row.txnId))

\* C3: the split puts every record in exactly one of the two lists, the
\* short-term ones in short_term and the others in long_term, each list in
\* the order of the input, and leaves the input list as it was.
C3_StablePartition ==
    [][ (pc = "returned" /\ pc' = "separated") =>
          /\ transactions' = transactions
          /\ Len(short_term') + Len(long_term') = Len(transactions)
          /\ \A k \in 1..Len(transactions) :
                LET inShort == {i \in 1..Len(short_term') : short_term'[i] = transactions[k]}
                    inLong  == {i \in 1..Len(long_term') : long_term'[i] = transactions[k]}
                IN  /\ Cardinality(inShort) + Cardinality(inLong) = 1
                    /\ transactions[k].is_short_term <=> inShort # {}
          /\ \A list \in {short_term', long_term'} :
                \A i, j \in 1..Len(list) :
                    i < j =>
                        \E a, b \in 1..Len(transactions) :
                            a < b /\ transactions[a] = list[i] /\ transactions[b] = list[j]
      ]_vars

\* a run that split two records into one short-term and one long-term
C3_Witness ==
    /\ pc = "separated"
    /\ Len(transactions) = 2
    /\ Len(short_term) = 1 /\ Len(long_term) = 1

\* C4: every record returned for tax year Y was sold between Jan 1 Y
\* 00:00:00 and Dec 31 Y 23:59:59, both included, and a sell row that can be
\* read is accepted iff its sale date is in that range: Dec 31 2023 23:59:59
\* is in 2023 and not in 2024, Jan 1 2024 00:00:00 is not in 2023.
C4_TaxYearRange ==
    /\ \A k \in 1..Len(transactions) :
          /\ Jan1[tax_year] <= transactions[k].date_sold
          /\ transactions[k].date_sold <= Dec31[tax_year]
    /\ (RowRead /\ Readable) =>
          (Accepted <=> (Jan1[tax_year] <= SaleDate /\ SaleDate <= Dec31[tax_year]))
    /\ (RowRead /\ Readable /\ SaleDate = Dec31[2023]) => (Accepted <=> tax_year = 2023)
    /\ (RowRead /\ Readable /\ SaleDate = Jan1[2024]) => (Accepted <=> tax_year = 2024)

\* a sale at Dec 31 2023 23:59:59, accepted for tax year 2023
C4_Witness ==
    /\ tax_year = 2023
    /\ Accepted
    /\ row.timestampSEC = Num(1704067199)
    /\ Record.date_sold = 1704067199

\* holding_days is the whole-day difference of the two dates, rounded down
WholeDayDifference ==
    /\ Record.holding_days * 86400 <= Record.date_sold - Record.date_acquired
    /\ Record.date_sold - Record.date_acquired < (Record.holding_days + 1) * 86400
    /\ Record.date_sold = SaleDate
    /\ Record.date_acquired = AcquisitionDate

InYear == Jan1[tax_year] <= SaleDate /\ SaleDate <= Dec31[tax_year]

\* C5 as claimed: holding_days of an accepted record is the whole-day
\* difference; with both gain/loss fields zero is_short_term is
\* (holding_days <= 365); a row acquired after it was sold is accepted with
\* a negative holding_days and classified short-term.
C5_AsClaimed ==
    /\ Accepted => WholeDayDifference
    /\ (Accepted /\ ShortAmount = Zero /\ LongAmount = Zero) =>
          (Record.is_short_term <=> Record.holding_days <= 365)
    /\ (RowRead /\ Readable /\ InYear /\ AcquisitionDate > SaleDate) =>
          /\ Accepted
          /\ Record.holding_days < 0
          /\ Record.is_short_term

\* C5 as amended: the same, but a row acquired after it was sold is
\* classified short-term unless only its long-term gain/loss field is
\* non-zero, and then it is classified long-term.
C5_HoldingPeriod ==
    /\ Accepted => WholeDayDifference
    /\ (Accepted /\ ShortAmount = Zero /\ LongAmount = Zero) =>
          (Record.is_short_term <=> Record.holding_days <= 365)
    /\ (RowRead /\ Readable /\ InYear /\ AcquisitionDate > SaleDate) =>
          /\ Accepted
          /\ Record.holding_days < 0
          /\ Record.is_short_term <=> ~(LongAmount # Zero /\ ShortAmount = Zero)

\* a row acquired one second after it was sold, with no gain/loss amount:
\* accepted, holding_days -1, short-term
C5_Witness ==
    /\ Accepted
    /\ AcquisitionDate = SaleDate + 1
    /\ ShortAmount = Zero /\ LongAmount = Zero
    /\ Record.holding_days = -1
    /\ Record.is_short_term

\* C6: a row with both gain/loss fields zero or blank gives a record with
\* gain_loss = proceeds - cost_basis.
C6_ComputedGainLoss ==
    (Accepted /\ ShortAmount = Zero /\ LongAmount = Zero) =>
        Cents(Record.gain_loss) = Cents(Record.proceeds) - Cents(Record.cost_basis)

\* C7: with exactly one of the two gain/loss fields non-zero, the record is
\* short-term iff that field is the short-term one, whatever holding_days
\* is, and its gain_loss is that amount.
C7_SingleSignal ==
    /\ (Accepted /\ ShortAmount # Zero /\ LongAmount = Zero) =>
          Record.is_short_term /\ Record.gain_loss = ShortAmount
    /\ (Accepted /\ LongAmount # Zero /\ ShortAmount = Zero) =>
          ~Record.is_short_term /\ Record.gain_loss = LongAmount

\* a lot held 400 days with only a short-term amount, short-term, in one
\* run with a lot acquired at the start of the year with only a long-term
\* amount, long-term
C7_Witness ==
    /\ Len(transactions) = 2
    /\ Accepted
    /\ Record.holding_days > 365 /\ Record.is_short_term
    /\ ShortAmount # Zero /\ LongAmount = Zero
    /\ transactions[1].holding_days <= 365 /\ ~transactions[1].is_short_term

\* C8: a row that can be read, sold in the year, with both gain/loss fields
\* non-zero is accepted with gain_loss the sum of the two, one "both terms"
\* warning about it and is_short_term = (holding_days <= 365); a row with a
\* zero field, or one that is dropped before its amounts are read, gets no
\* such warning, and no row gets more than one.
C8_BothSignals ==
    /\ (RowRead /\ Readable /\ InYear /\ ShortAmount # Zero /\ LongAmount # Zero) =>
          /\ Accepted
          /\ Cents(Record.gain_loss) = Cents(ShortAmount) + Cents(LongAmount)
          /\ WarningsAbout("both_terms") = 1
          /\ Record.is_short_term <=> Record.holding_days <= 365
    /\ (RowRead /\ (ShortAmount = Zero \/ LongAmount = Zero)) =>
          WarningsAbout("both_terms") = 0
    /\ RowRead => WarningsAbout("both_terms") <= 1
    /\ \A i \in 1..Len(validation_warnings) :
          validation_warnings[i].kind = "both_terms" =>
              validation_warnings[i].txn \in 1..n_rows

\* a lot held 400 days with 35.00 short-term and 25.00 long-term: accepted
\* as long-term with gain_loss 60.00 and the warning
C8_Witness ==
    /\ Accepted
    /\ ShortAmount = Dec(35, 0) /\ LongAmount = Dec(25, 0)
    /\ Record.gain_loss = Dec(60, 0)
    /\ ~Record.is_short_term
    /\ WarningsAbout("both_terms") = 1

InvalidTimestamp(x) ==
    \/ IsNa(x)
    \/ x = Num(0)
    \/ /\ x.kind = "str"
       /\ LET f == PyFloat(Strip(x.s)) IN ~f.ok \/ f.v.m = 0

\* the warnings about the row in hand, of any kind
WarningsOfRow ==
    Len(SelectSeq(validation_warnings, LAMBDA w : w.txn = row.txnId))

\* C11: a sell row whose sale or acquisition timestamp is missing, empty,
\* zero (as the number 0 or as the text "0") or not a number gives no record
\* and at least one warning, and no record is dated at the epoch.
C11_InvalidTimestampRejected ==
    /\ (RowRead /\ (\/ InvalidTimestamp(row.timestampSEC)
                    \/ InvalidTimestamp(row.lotAcquisitionTimestampSEC))) =>
          /\ ~Accepted
          /\ WarningsOfRow >= 1
    /\ \A k \in 1..Len(transactions) :
          /\ transactions[k].date_acquired # 0
          /\ transactions[k].date_sold # 0

\* the sale date of row r, once read, is in tax year y
SoldInYear(r, y) ==
    LET t == ParseTimestamp(r.timestampSEC).t IN Jan1[y] <= t /\ t <= Dec31[y]

\* both timestamps of row r can be read
TimestampsRead(r) ==
    ParseTimestamp(r.timestampSEC).ok /\ ParseTimestamp(r.lotAcquisitionTimestampSEC).ok

\* row r raises in the loop body: a timestamp the code cannot read, or, once
\* the row has passed the year filter, a quantity that is text
Fails(r, y) ==
    /\ r.action = "sell"
    /\ \/ ~TimestampsRead(r)
       \/ SoldInYear(r, y) /\ r.assetUnitAdj.kind = "str"

\* row r is a sell row of tax year y that can be read
ValidInYear(r, y) ==
    /\ r.action = "sell"
    /\ TimestampsRead(r)
    /\ r.assetUnitAdj.kind # "str"
    /\ SoldInYear(r, y)

\* C12: whatever the rows before it did, a row of the DataFrame leaves the
\* loop running; a valid sell row of the tax year appends its one record to
\* the records so far, any other row leaves them as they are, and a row that
\* raises adds at least one warning about itself; so the records returned
\* are those of the valid in-year sell rows, in the order of the rows.
C12_FailingRowsSkipped ==
    /\ [](\A i, j \in 1..Len(transactions) :
              i < j => transactions[i].txn_id < transactions[j].txn_id)
    /\ [][ n_rows' = n_rows + 1 =>
             /\ pc' = "rows"
             /\ IF ValidInYear(row', tax_year)
                THEN /\ Len(transactions') = Len(transactions) + 1
                     /\ SubSeq(transactions', 1, Len(transactions)) = transactions
                     /\ transactions'[Len(transactions')].txn_id = row'.txnId
                     /\ transactions'[Len(transactions')].date_sold
                            = ParseTimestamp(row'.timestampSEC).t
                     /\ transactions'[Len(transactions')].date_acquired
                            = ParseTimestamp(row'.lotAcquisitionTimestampSEC).t
                ELSE transactions' = transactions
             /\ Fails(row', tax_year) =>
                   /\ Len(validation_warnings') > Len(validation_warnings)
                   /\ \E i \in 1..Len(validation_warnings') :
                         validation_warnings'[i].txn = row'.txnId
         ]_vars

\* a row with no sale timestamp, dropped with a warning, followed by a valid
\* row of the tax year, accepted
C12_Witness ==
    /\ n_rows = 2
    /\ Accepted
    /\ Len(transactions) = 1
    /\ Record.txn_id = 2
    /\ error_count = 1
    /\ validation_warnings = <<[kind |-> "sale_timestamp", txn |-> 1]>>

\* C13: a sell row whose sale timestamp can be read and is outside the tax
\* year adds no warning and no record, adds one to the filtered-by-year
\* counter and nothing to the error counter, whatever its other fields hold.
C13_OutOfYearSilent ==
    [][ (/\ n_rows' = n_rows + 1
         /\ row'.action = "sell"
         /\ ParseTimestamp(row'.timestampSEC).ok
         /\ ~SoldInYear(row', tax_year)) =>
            /\ validation_warnings' = validation_warnings
            /\ transactions' = transactions
            /\ filtered_out_count' = filtered_out_count + 1
            /\ error_count' = error_count
            /\ processed_count' = processed_count
      ]_vars

\* C20: the three counters add up to the number of sell rows read, the
\* processed counter is the number of records, and a row with another action
\* changes no counter, no record and no warning.
C20_CountersPartition ==
    /\ [](/\ processed_count + error_count + filtered_out_count = sell_count
          /\ processed_count = Len(transactions))
    /\ [][ n_rows' = n_rows + 1 =>
             /\ sell_count' = sell_count + (IF row'.action = "sell" THEN 1 ELSE 0)
             /\ (processed_count' + error_count' + filtered_out_count')
                    = (processed_count + error_count + filtered_out_count)
                      + (IF row'.action = "sell" THEN 1 ELSE 0)
             /\ row'.action # "sell" =>
                   /\ processed_count' = processed_count
                   /\ error_count' = error_count
                   /\ filtered_out_count' = filtered_out_count
                   /\ transactions' = transactions
                   /\ validation_warnings' = validation_warnings
         ]_vars

\* a run that has returned after a row of another action and a sell row
\* outside the tax year: one sell row, counted as filtered
C20_Witness ==
    /\ pc = "returned"
    /\ n_rows = 2
    /\ sell_count = 1
    /\ filtered_out_count = 1 /\ processed_count = 0 /\ error_count = 0
    /\ transactions = <<>> /\ validation_warnings = <<>>

-----------------------------------------------------------------------------
(* Properties of clean_bitwave_currency_value  (SpecClean) *)

\* what is left of the cell once the parentheses, the currency symbol, the
\* thousands separators and the whitespace are taken out
Enclosed == PyFloat(Remove(value.s, {"(", ")", ",", "$", " "}))

Parenthesized ==
    value.kind = "str" /\ Contains(value.s, "(") /\ Contains(value.s, ")")

\* C10: a cell holding both parentheses, whose remaining text is a number
\* v, is cleaned to -|v|, which is never positive.
C10_ParenthesizedIsNegative ==
    (pc = "cleaned" /\ Parenthesized /\ Enclosed.ok) =>
        /\ result = DecNeg(DecAbs(Enclosed.v))
        /\ result.m <= 0

-----------------------------------------------------------------------------
(* Properties of the gain/loss text  (SpecDraw) *)

\* the text drawn lies between an opening and a closing parenthesis
InParentheses ==
    /\ Len(gain_loss_text) >= 3
    /\ gain_loss_text[1] = "("
    /\ gain_loss_text[Len(gain_loss_text)] = ")"

\* the text drawn holds no parenthesis
Bare == ~Contains(gain_loss_text, "(") /\ ~Contains(gain_loss_text, ")")

\* the digits drawn, and the zeros that must end them: two decimals after a
\* point, none in the format without decimals
DrawnDigits == SelectSeq(gain_loss_text, IsDigit)
HasPoint == Contains(gain_loss_text, ".")
EndingZeros == (IF HasPoint THEN 2 ELSE 0) - gain_loss.e

\* the digits drawn read as the absolute value of the amount
ShowsAbsoluteValue ==
    /\ ~Contains(gain_loss_text, "-")
    /\ EndingZeros >= 0
    /\ Len(DrawnDigits) > EndingZeros
    /\ DigitsValue(SubSeq(DrawnDigits, 1, Len(DrawnDigits) - EndingZeros)) = Abs(gain_loss.m)
    /\ \A i \in (Len(DrawnDigits) - EndingZeros + 1)..Len(DrawnDigits) : DrawnDigits[i] = "0"
    /\ HasPoint =>
          /\ gain_loss_text[Len(gain_loss_text) - (IF InParentheses THEN 3 ELSE 2)] = "."
          /\ Len(SelectSeq(gain_loss_text, LAMBDA ch : ch = ".")) = 1

\* C18: in each place a gain/loss amount is drawn (a row or the totals, of
\* the templated or of the fallback renderer) the text is the absolute value
\* in parentheses iff the amount is negative and holds no parenthesis
\* otherwise, with or without decimals: -25.50 is drawn "(25.50)" and 60.00
\* is drawn "60.00".
C18_NegativeInParentheses ==
    pc = "drawn" =>
        /\ gain_loss.m < 0 <=> InParentheses
        /\ gain_loss.m >= 0 <=> Bare
        /\ ShowsAbsoluteValue
        /\ gain_loss = Dec(-2550, 2) =>
              gain_loss_text = <<"(", "2", "5", ".", "5", "0", ")">>
        /\ gain_loss = Dec(6000, 2) =>
              gain_loss_text = <<"6", "0", ".", "0", "0">>

\* a loss of 255 followed by 15 zeros, too wide for the column of a row of
\* the templated renderer with its decimals: drawn without them, in
\* parentheses
C18_Witness ==
    /\ pc = "drawn"
    /\ place = "official_row"
    /\ gain_loss = [m |-> -255, e |-> -15]
    /\ ~HasPoint
    /\ InParentheses
    /\ Len(DrawnDigits) = 18

====
